---- MODULE Spec2Model ----
(***************************************************************************)
(* Model of proxy.py: ProxyManager._fetch_data (listing parser),           *)
(* ProxyManager.fetch_proxies (bulk strategy), ProxyManager.cycle          *)
(* (streaming generator), ProxyManager.format_proxy and                    *)
(* ProxyManager.test_proxy (liveness probe).                               *)
(*                                                                         *)
(* Text is a sequence of one-character strings, so that strip(), int(),    *)
(* split() and the f-string of format_proxy are computed, not assumed.     *)
(***************************************************************************)
EXTENDS Integers, Sequences, FiniteSets, TLC

(***************************************************************************)
(* Bounds of the model.                                                    *)
(***************************************************************************)
\* longest listing (number of <tr> rows) of the orchestrator specification
MaxRows == 4
\* longest listing of the status specification
MaxStatusRows == 2
\* longest listing of the parser specification
MaxParseRows == 4
\* the minute at which the listing is fetched (datetime.utcnow())
FetchMinute == 100
\* longest listing of the country filter specification
MaxFilterRows == 4
\* largest port of the formatter specification's candidates
MaxPort == 12

(***************************************************************************)
(* Program constants.                                                      *)
(***************************************************************************)
UNDETECTED == -1
TRANSPARENT == 0
ANONYMOUS == 1
ELITE == 2

(***************************************************************************)
(* Python text primitives.                                                 *)
(***************************************************************************)
Digits == <<"0", "1", "2", "3", "4", "5", "6", "7", "8", "9">>

IsDigit(c) == \E k \in 1..10 : Digits[k] = c

DigitVal(c) == (CHOOSE k \in 1..10 : Digits[k] = c) - 1

\* str.isspace() on one character
IsSpace(c) == c \in {" ", "\n", "\t", "\r"}

RECURSIVE lstrip(_)
lstrip(s) ==
    IF s # <<>> /\ IsSpace(Head(s)) THEN lstrip(Tail(s)) ELSE s

RECURSIVE rstrip(_)
rstrip(s) ==
    IF s # <<>> /\ IsSpace(s[Len(s)]) THEN rstrip(SubSeq(s, 1, Len(s) - 1)) ELSE s

\* str.strip(): both ends, whitespace only
strip(s) == rstrip(lstrip(s))

\* str.lower() on the letters the listing uses
LowerChar(c) ==
    CASE c = "E" -> "e" [] c = "L" -> "l" [] c = "I" -> "i" [] c = "T" -> "t"
      [] c = "A" -> "a" [] c = "N" -> "n" [] c = "O" -> "o" [] c = "P" -> "p"
      [] OTHER -> c

lower(s) == [k \in 1..Len(s) |-> LowerChar(s[k])]

RECURSIVE DigitsValue(_)
DigitsValue(s) ==
    IF s = <<>> THEN 0
    ELSE 10 * DigitsValue(SubSeq(s, 1, Len(s) - 1)) + DigitVal(s[Len(s)])

AllDigits(s) == s # <<>> /\ \A k \in 1..Len(s) : IsDigit(s[k])

\* int(text): surrounding whitespace is dropped, one optional sign, then
\* decimal digits; anything else raises ValueError.
int(s) ==
    LET t == strip(s)
        signed == t # <<>> /\ Head(t) \in {"+", "-"}
        body == IF signed THEN Tail(t) ELSE t
    IN  IF AllDigits(body)
        THEN [exc |-> "none",
              val |-> IF signed /\ Head(t) = "-" THEN 0 - DigitsValue(body)
                      ELSE DigitsValue(body)]
        ELSE [exc |-> "ValueError", val |-> 0]

RECURSIVE NatStr(_)
NatStr(n) ==
    IF n < 10 THEN <<Digits[n + 1]>>
    ELSE NatStr(n \div 10) \o <<Digits[(n % 10) + 1]>>

\* str(n) of an int, as the f-string of format_proxy renders it
str(n) == IF n < 0 THEN <<"-">> \o NatStr(0 - n) ELSE NatStr(n)

RECURSIVE TakeWord(_)
TakeWord(s) ==
    IF s = <<>> \/ IsSpace(Head(s)) THEN <<>>
    ELSE <<Head(s)>> \o TakeWord(Tail(s))

\* text.split()[0]: the first whitespace-separated word; IndexError when
\* the text holds no word.
split0(s) ==
    LET t == lstrip(s)
    IN  IF t = <<>> THEN [exc |-> "IndexError", val |-> <<>>]
        ELSE [exc |-> "none", val |-> TakeWord(t)]

(***************************************************************************)
(* Texts of the listing and of the echo service.                           *)
(***************************************************************************)
IP1 == <<"1", ".", "2">>
IP2 == <<"3", ".", "4">>
IP6 == <<":", ":", "1">>
HostName == <<"p", ".", "i", "o">>

Port80 == <<"8", "0">>
PortPadded == <<" ", "7", "\n">>
PortBad == <<"8", "x">>
PortEmpty == <<>>

US == <<"U", "S">>
CountryName == <<"U", "S", "A">>
Yes == <<"y", "e", "s">>
No == <<"n", "o">>

LabelTransparent == <<"t", "r", "a", "n", "s", "p", "a", "r", "e", "n", "t">>
LabelElite == <<"e", "l", "i", "t", "e", " ", "p", "r", "o", "x", "y">>
LabelAnonymous == <<"a", "n", "o", "n", "y", "m", "o", "u", "s">>
LabelEliteUpper == <<"E", "L", "I", "T", "E", " ", "P", "R", "O", "X", "Y">>
LabelOther == <<"?">>

Age5 == <<"5", " ", "m", "i", "n", "s", " ", "a", "g", "o">>
Age12 == <<"1", "2", " ", "m", "i", "n", "s", " ", "a", "g", "o">>
AgeNegative == <<"-", "3", " ", "m", "i", "n", "s", " ", "a", "g", "o">>
AgeWords == <<"n", "o", "w">>
AgeEmpty == <<" ">>

\* a <tr> is the sequence of the texts of its <td> cells
Row(ip, port, label, https, age) ==
    <<ip, port, US, CountryName, label, Yes, https, age>>

\* the header row of the table: <th> cells only, no <td>
HeaderRow == <<>>
ShortRow == <<IP1, Port80, US, CountryName, LabelElite, Yes, Yes>>
LongRow == <<IP2, Port80, US, CountryName, LabelElite, Yes, Yes, Age5, Age5>>

(***************************************************************************)
(* ProxyManager._fetch_data, one table row.                                *)
(***************************************************************************)
\* self._anonymity.get(label.lower(), Anonymity.UNDETECTED)
anonymity_get(label) ==
    LET key == lower(label)
    IN  CASE key = LabelTransparent -> TRANSPARENT
          [] key = LabelElite -> ELITE
          [] key = LabelAnonymous -> ANONYMOUS
          [] OTHER -> UNDETECTED

NoProxy ==
    [ip |-> <<>>, port |-> 0, country_code |-> <<>>, anonymity |-> UNDETECTED,
     is_google |-> FALSE, is_https |-> FALSE, last_checked |-> 0]

\* faulty variant: only server errors (5xx) are raised
raise_for_status_5xx(code) == 500 <= code /\ code < 600

\* response.raise_for_status(): HTTPError for a 4xx or 5xx status
raise_for_status(code) == 400 <= code /\ code < 600

\* faulty variant: if len(parts) < 8: continue
row_accepted_atleast(parts) == Len(parts) >= 8

\* if len(parts) != 8: continue
row_accepted(parts) == Len(parts) = 8

\* faulty variant: a port that does not parse silently becomes 0
row_port_default(parts) ==
    IF int(parts[2]).exc # "none" THEN [exc |-> "none", val |-> 0] ELSE int(parts[2])

\* 'port': int(parts[1].text)
row_port(parts) == int(parts[2])

\* int(parts[7].text.split()[0])
row_minutes(parts) ==
    LET word == split0(parts[8])
    IN  IF word.exc # "none" THEN [exc |-> word.exc, val |-> 0] ELSE int(word.val)

\* faulty variant: is_https is read from the google cell
row_proxy_google(parts, now) ==
    LET port == row_port(parts)
        mins == row_minutes(parts)
    IN  IF port.exc # "none" THEN [exc |-> port.exc, proxy |-> NoProxy]
        ELSE IF mins.exc # "none" THEN [exc |-> mins.exc, proxy |-> NoProxy]
        ELSE [exc |-> "none",
              proxy |-> [ip |-> parts[1],
                         port |-> port.val,
                         country_code |-> parts[3],
                         anonymity |-> anonymity_get(parts[5]),
                         is_google |-> (parts[6] = Yes),
                         is_https |-> (parts[6] = Yes),
                         last_checked |-> now - mins.val]]

\* the dict literal of one accepted row, its items evaluated in order:
\* the port first, the age last
row_proxy(parts, now) ==
    LET port == row_port(parts)
        mins == row_minutes(parts)
    IN  IF port.exc # "none" THEN [exc |-> port.exc, proxy |-> NoProxy]
        ELSE IF mins.exc # "none" THEN [exc |-> mins.exc, proxy |-> NoProxy]
        ELSE [exc |-> "none",
              proxy |-> [ip |-> parts[1],
                         port |-> port.val,
                         country_code |-> parts[3],
                         anonymity |-> anonymity_get(parts[5]),
                         is_google |-> (parts[6] = Yes),
                         is_https |-> (parts[7] = Yes),
                         last_checked |-> now - mins.val]]

(***************************************************************************)
(* ProxyManager.format_proxy and ProxyManager.test_proxy.                  *)
(***************************************************************************)
HttpPrefix == <<"h", "t", "t", "p", ":", "/", "/">>

\* faulty variant: the colon between host and port is missing
format_proxy_nocolon(proxy) ==
    [https |-> HttpPrefix \o proxy.ip \o str(proxy.port),
     http |-> HttpPrefix \o proxy.ip \o str(proxy.port)]

format_proxy(proxy) ==
    [https |-> HttpPrefix \o proxy.ip \o <<":">> \o str(proxy.port),
     http |-> HttpPrefix \o proxy.ip \o <<":">> \o str(proxy.port)]

\* the classes of requests.exceptions an exception kind is an instance of
Bases(kind) ==
    CASE kind = "ConnectTimeout" -> {"ConnectTimeout", "Timeout", "ConnectionError"}
      [] kind = "ReadTimeout" -> {"ReadTimeout", "Timeout"}
      [] kind = "ProxyError" -> {"ProxyError", "ConnectionError"}
      [] kind = "SSLError" -> {"SSLError", "ConnectionError"}
      [] OTHER -> {kind}

\* a transport outcome: a response body, or an exception of requests.get
Body(text) == [exc |-> "none", text |-> text]
Raises(kind) == [exc |-> kind, text |-> <<>>]

\* faulty variant: no except clause for ProxyError
test_proxy_noproxyerror(proxy, response) ==
    IF response.exc = "none"
    THEN [exc |-> "none", ret |-> (strip(response.text) = proxy.ip)]
    ELSE IF "Timeout" \in Bases(response.exc) THEN [exc |-> "none", ret |-> FALSE]
    ELSE [exc |-> response.exc, ret |-> FALSE]

\* faulty variant: the body is compared without .strip()
test_proxy_nostrip(proxy, response) ==
    IF response.exc = "none"
    THEN [exc |-> "none", ret |-> (response.text = proxy.ip)]
    ELSE IF "Timeout" \in Bases(response.exc) THEN [exc |-> "none", ret |-> FALSE]
    ELSE IF "ProxyError" \in Bases(response.exc) THEN [exc |-> "none", ret |-> FALSE]
    ELSE [exc |-> response.exc, ret |-> FALSE]

\* faulty variant: a bare except swallows every transport failure
test_proxy_bareexcept(proxy, response) ==
    IF response.exc = "none"
    THEN [exc |-> "none", ret |-> (strip(response.text) = proxy.ip)]
    ELSE [exc |-> "none", ret |-> FALSE]

test_proxy(proxy, response) ==
    IF response.exc = "none"
    THEN [exc |-> "none", ret |-> (strip(response.text) = proxy.ip)]
    ELSE IF "Timeout" \in Bases(response.exc) THEN [exc |-> "none", ret |-> FALSE]
    ELSE IF "ProxyError" \in Bases(response.exc) THEN [exc |-> "none", ret |-> FALSE]
    ELSE [exc |-> response.exc, ret |-> FALSE]

(***************************************************************************)
(* State.                                                                  *)
(***************************************************************************)
VARIABLES
    strategy,   \* the method called: "A" fetch_proxies, "B" cycle, "P" _fetch_data
    status,     \* status code of the listing's response
    rows,       \* the <tr> rows of the listing, each a sequence of cell texts
    caller,     \* "idle", "waiting" (inside the call or next()), "stopped", "done"
    pc,         \* position of the called method
    r,          \* _fetch_data: index of the row the loop is at
    proxies,    \* _fetch_data: the list being built
    data,       \* the list _fetch_data returned
    i,          \* index of the candidate the strategy is at
    futures,    \* fetch_proxies: the executor's futures, in submission order
    probed,     \* history: one entry per call of filter_func, in call order
    yielded,    \* cycle: the elements handed to the consumer, in order
    result,     \* fetch_proxies / _fetch_data: the returned list
    error,      \* the exception that left the method, "none" if none
    tp_pc,      \* test_proxy called alone: its position
    tp_proxy,   \* test_proxy: the candidate
    tp_request, \* test_proxy: the proxies= argument of requests.get
    tp_response,\* test_proxy: what requests.get did
    tp_out,     \* test_proxy: what it returned or raised
    fm_pc,      \* formatter round trip: its position
    fm_proxy,   \* formatter: the candidate
    fm_config,  \* formatter: format_proxy(candidate)
    fm_back,    \* formatter: the pair parsed back out of the config
    nexts,      \* cycle: number of next() calls the consumer has made
    accepted,   \* country filter: the configured set of accepted codes
    kept        \* country filter: the candidates it kept

orch_vars ==
    <<strategy, status, rows, caller, pc, r, proxies, data, i, futures,
      probed, yielded, result, error>>
tp_vars == <<tp_pc, tp_proxy, tp_request, tp_response, tp_out>>
fm_vars == <<fm_pc, fm_proxy, fm_config, fm_back>>
cf_vars == <<accepted, kept>>
vars == <<orch_vars, tp_vars, fm_vars, cf_vars, nexts>>

NoConfig == [https |-> <<>>, http |-> <<>>]
NoOut == [exc |-> "none", ret |-> FALSE]
NoPair == [exc |-> "none", address |-> <<>>, port |-> 0]

OrchIdle ==
    /\ strategy = "none" /\ status = 0 /\ rows = <<>> /\ caller = "off"
    /\ pc = "off" /\ r = 0 /\ proxies = <<>> /\ data = <<>> /\ i = 0
    /\ futures = <<>> /\ probed = <<>> /\ yielded = <<>> /\ result = <<>>
    /\ error = "none" /\ nexts = 0

ProbeIdle ==
    /\ tp_pc = "off" /\ tp_proxy = NoProxy /\ tp_request = NoConfig
    /\ tp_response = Body(<<>>) /\ tp_out = NoOut

FormatIdle ==
    /\ fm_pc = "off" /\ fm_proxy = NoProxy /\ fm_config = NoConfig
    /\ fm_back = NoPair

FilterIdle == accepted = {} /\ kept = <<>>

(***************************************************************************)
(* Inputs of the orchestrator specification.                               *)
(***************************************************************************)
GoodRow1 == Row(IP1, Port80, LabelElite, Yes, Age5)
GoodRow2 == Row(IP2, PortPadded, LabelEliteUpper, No, Age12)
BadPortRow == Row(IP1, PortBad, LabelOther, Yes, Age5)

Statuses == {200, 404}
MainRows == {HeaderRow, GoodRow1, GoodRow2, BadPortRow}

\* all sequences over S of length at most n
SeqsUpTo(S, n) == UNION {[1..k -> S] : k \in 0..n}

\* what requests.get through the candidate can do: the echo of its address,
\* the echo of another address, a failure test_proxy absorbs (the first
\* address is one that times out, the others refuse the connection), or a
\* TLS failure
Responses(proxy) ==
    {Body(proxy.ip \o <<"\n">>), Body(IP6),
     Raises(IF proxy.ip = IP1 THEN "ReadTimeout" ELSE "ProxyError"),
     Raises("SSLError")}

Init ==
    /\ strategy \in {"A", "B"}
    /\ status \in Statuses
    /\ rows \in SeqsUpTo(MainRows, MaxRows)
    \* the table starts with its header row, or with a row of 8 cells
    /\ rows # <<>> => rows[1] \in {HeaderRow, BadPortRow}
    /\ caller = "idle"
    /\ pc = "start"
    /\ r = 0
    /\ proxies = <<>>
    /\ data = <<>>
    /\ i = 0
    /\ futures = <<>>
    /\ probed = <<>>
    /\ yielded = <<>>
    /\ result = <<>>
    /\ error = "none"
    /\ nexts = 0
    /\ ProbeIdle
    /\ FormatIdle
    /\ FilterIdle

(***************************************************************************)
(* The caller: calls the method, or consumes the generator of cycle().     *)
(***************************************************************************)
\* the call of fetch_proxies() or _fetch_data(), or the first next() on the
\* generator cycle() returned: the body starts at its first statement
Call ==
    /\ caller = "idle"
    /\ pc = "start"
    /\ caller' = "waiting"
    /\ pc' = "fetch"
    /\ nexts' = IF strategy = "B" THEN nexts + 1 ELSE nexts
    /\ UNCHANGED <<strategy, status, rows, r, proxies, data, i, futures,
                   probed, yielded, result, error, tp_vars, fm_vars, cf_vars>>

\* faulty variant: the generator resumes at the candidate it has just yielded
Resume_same ==
    /\ strategy = "B"
    /\ caller = "idle"
    /\ pc = "suspended"
    /\ caller' = "waiting"
    /\ pc' = "loop"
    /\ nexts' = nexts + 1
    /\ UNCHANGED <<strategy, status, rows, r, proxies, data, i, futures,
                   probed, yielded, result, error, tp_vars, fm_vars, cf_vars>>

\* a further next(): the generator resumes after its yield, at the next
\* iteration of the for loop
Resume ==
    /\ strategy = "B"
    /\ caller = "idle"
    /\ pc = "suspended"
    /\ caller' = "waiting"
    /\ pc' = "loop"
    /\ i' = i + 1
    /\ nexts' = nexts + 1
    /\ UNCHANGED <<strategy, status, rows, r, proxies, data, futures,
                   probed, yielded, result, error, tp_vars, fm_vars, cf_vars>>

\* the consumer drops the generator: nothing of its body runs any more
Stop ==
    /\ strategy = "B"
    /\ caller = "idle"
    /\ pc \in {"start", "suspended"}
    /\ caller' = "stopped"
    /\ UNCHANGED <<strategy, status, rows, pc, r, proxies, data, i, futures,
                   probed, yielded, result, error, tp_vars, fm_vars, cf_vars, nexts>>

(***************************************************************************)
(* ProxyManager._fetch_data.                                               *)
(***************************************************************************)
\* faulty variant: the loop is over rows, not rows[1:]
GetListing_all ==
    /\ caller = "waiting"
    /\ pc = "fetch"
    /\ IF raise_for_status(status)
       THEN /\ pc' = "raised"
            /\ error' = "HTTPError"
            /\ caller' = "done"
            /\ UNCHANGED r
       ELSE /\ pc' = "parse"
            /\ r' = 1
            /\ UNCHANGED <<error, caller>>
    /\ UNCHANGED <<strategy, status, rows, proxies, data, i, futures,
                   probed, yielded, result, tp_vars, fm_vars, cf_vars, nexts>>

\* requests.get(FETCH_URL); response.raise_for_status(); find_all("tr")
GetListing ==
    /\ caller = "waiting"
    /\ pc = "fetch"
    /\ IF raise_for_status(status)
       THEN /\ pc' = "raised"
            /\ error' = "HTTPError"
            /\ caller' = "done"
            /\ UNCHANGED r
       ELSE /\ pc' = "parse"
            /\ r' = 2
            /\ UNCHANGED <<error, caller>>
    /\ UNCHANGED <<strategy, status, rows, proxies, data, i, futures,
                   probed, yielded, result, tp_vars, fm_vars, cf_vars, nexts>>

\* one iteration of: for row in rows[1:]
ParseRow ==
    /\ caller = "waiting"
    /\ pc = "parse"
    /\ r <= Len(rows)
    /\ IF ~row_accepted(rows[r])
       THEN /\ r' = r + 1
            /\ UNCHANGED <<pc, proxies, error, caller>>
       ELSE LET got == row_proxy(rows[r], FetchMinute)
            IN  IF got.exc # "none"
                THEN /\ pc' = "raised"
                     /\ error' = got.exc
                     /\ caller' = "done"
                     /\ UNCHANGED <<r, proxies>>
                ELSE /\ proxies' = Append(proxies, got.proxy)
                     /\ r' = r + 1
                     /\ UNCHANGED <<pc, error, caller>>
    /\ UNCHANGED <<strategy, status, rows, data, i, futures, probed, yielded,
                   result, tp_vars, fm_vars, cf_vars, nexts>>

\* return proxies, to the caller or into the strategy that called
ParseReturn ==
    /\ caller = "waiting"
    /\ pc = "parse"
    /\ r > Len(rows)
    /\ data' = proxies
    /\ IF strategy = "P"
       THEN /\ pc' = "returned"
            /\ result' = proxies
            /\ caller' = "done"
            /\ UNCHANGED i
       ELSE /\ pc' = IF strategy = "A" THEN "submit" ELSE "loop"
            /\ i' = 1
            /\ UNCHANGED <<result, caller>>
    /\ UNCHANGED <<strategy, status, rows, r, proxies, futures, probed,
                   yielded, error, tp_vars, fm_vars, cf_vars, nexts>>

(***************************************************************************)
(* ProxyManager.fetch_proxies (Strategy A).                                *)
(***************************************************************************)
\* one entry of the history of filter_func calls
Probe(idx, thread, response, out) ==
    [idx |-> idx, thread |-> thread, response |-> response.exc,
     exc |-> out.exc, ret |-> out.ret]

\* ThreadPoolExecutor(max_workers=50)
max_workers == 50

\* faulty variant: what submit() receives is a callable that runs the probe
submitted_callable(out) == [callable |-> TRUE, value |-> out.ret]

\* the fn argument of executor.submit(filter_func(x)): the value filter_func
\* returned, a bool, which cannot be called
submitted(out) == [callable |-> FALSE, value |-> out.ret]

\* the work items a worker thread is running
Running == {k \in 1..Len(futures) : futures[k].state = "running"}

\* executor.submit(filter_func(x)): the argument is evaluated first, by the
\* thread that runs the list comprehension; here filter_func(x) is entered
fetch_proxies_call ==
    /\ strategy = "A"
    /\ caller = "waiting"
    /\ pc = "submit"
    /\ i <= Len(data)
    /\ pc' = "call"
    /\ UNCHANGED <<strategy, status, rows, caller, r, proxies, data, i,
                   futures, probed, yielded, result, error, tp_vars, fm_vars, cf_vars, nexts>>

\* faulty variant: a probe that absorbed a transport failure ends the loop
fetch_proxies_submit_break ==
    /\ strategy = "A"
    /\ caller = "waiting"
    /\ pc = "call"
    /\ \E response \in Responses(data[i]) :
         LET out == test_proxy(data[i], response)
         IN  /\ probed' = Append(probed, Probe(i, "caller", response, out))
             /\ IF out.exc # "none"
                THEN /\ pc' = "unwind"
                     /\ error' = out.exc
                     /\ UNCHANGED <<i, futures>>
                ELSE /\ futures' = Append(futures,
                                          [fn |-> submitted(out),
                                           state |-> "pending",
                                           exc |-> "none", ret |-> FALSE])
                     /\ i' = IF response.exc # "none" THEN Len(data) + 1 ELSE i + 1
                     /\ pc' = "submit"
                     /\ UNCHANGED error
    /\ UNCHANGED <<strategy, status, rows, caller, r, proxies, data,
                   yielded, result, tp_vars, fm_vars, cf_vars, nexts>>

\* filter_func(x) returns or raises; its value, a bool, is what submit()
\* receives as the callable of the new future
fetch_proxies_submit ==
    /\ strategy = "A"
    /\ caller = "waiting"
    /\ pc = "call"
    /\ \E response \in Responses(data[i]) :
         LET out == test_proxy(data[i], response)
         IN  /\ probed' = Append(probed, Probe(i, "caller", response, out))
             /\ IF out.exc # "none"
                THEN /\ pc' = "unwind"
                     /\ error' = out.exc
                     /\ UNCHANGED <<i, futures>>
                ELSE /\ futures' = Append(futures,
                                          [fn |-> submitted(out),
                                           state |-> "pending",
                                           exc |-> "none", ret |-> FALSE])
                     /\ i' = i + 1
                     /\ pc' = "submit"
                     /\ UNCHANGED error
    /\ UNCHANGED <<strategy, status, rows, caller, r, proxies, data,
                   yielded, result, tp_vars, fm_vars, cf_vars, nexts>>

\* a worker thread, one of at most max_workers, runs the work item of future
\* k: it calls fn(). fn is a bool, so the call raises TypeError at once, which
\* the future stores; a callable fn would run until it returns or raises
worker_run(k) ==
    /\ strategy = "A"
    /\ k \in 1..Len(futures)
    /\ CASE futures[k].state = "pending" /\ ~futures[k].fn.callable ->
               /\ Cardinality(Running) < max_workers
               /\ futures' = [futures EXCEPT ![k].state = "done",
                                             ![k].exc = "TypeError"]
               /\ UNCHANGED probed
         [] futures[k].state = "pending" /\ futures[k].fn.callable ->
               /\ Cardinality(Running) < max_workers
               /\ futures' = [futures EXCEPT ![k].state = "running"]
               /\ UNCHANGED probed
         [] futures[k].state = "running" ->
               \E response \in Responses(data[k]) :
                 LET out == test_proxy(data[k], response)
                 IN  /\ futures' = [futures EXCEPT ![k].state = "done",
                                                   ![k].exc = out.exc,
                                                   ![k].ret = out.ret]
                     /\ probed' = Append(probed,
                                         Probe(k, "worker", response, out))
         [] OTHER -> FALSE
    /\ UNCHANGED <<strategy, status, rows, caller, pc, r, proxies, data, i,
                   yielded, result, error, tp_vars, fm_vars, cf_vars, nexts>>

\* is_ok in the comprehension is f.result, the bound method, not its call:
\* a method object is truthy whatever the future holds
is_ok(f) == TRUE

\* [proxy for (proxy, is_ok) in zip(data, ...) if is_ok]
RECURSIVE Kept(_, _)
Kept(d, fs) ==
    IF d = <<>> \/ fs = <<>> THEN <<>>
    ELSE (IF is_ok(Head(fs)) THEN <<Head(d)>> ELSE <<>>) \o Kept(Tail(d), Tail(fs))

\* the return expression, evaluated inside the with block
fetch_proxies_collect ==
    /\ strategy = "A"
    /\ caller = "waiting"
    /\ pc = "submit"
    /\ i > Len(data)
    /\ result' = Kept(data, futures)
    /\ pc' = "exit"
    /\ UNCHANGED <<strategy, status, rows, caller, r, proxies, data, i,
                   futures, probed, yielded, error, tp_vars, fm_vars, cf_vars, nexts>>

\* ThreadPoolExecutor.__exit__: shutdown(wait=True), then the return value
\* or the pending exception reaches the caller
executor_exit ==
    /\ strategy = "A"
    /\ caller = "waiting"
    /\ pc \in {"exit", "unwind"}
    /\ \A k \in 1..Len(futures) : futures[k].state = "done"
    /\ pc' = IF pc = "exit" THEN "returned" ELSE "raised"
    /\ caller' = "done"
    /\ UNCHANGED <<strategy, status, rows, r, proxies, data, i, futures,
                   probed, yielded, result, error, tp_vars, fm_vars, cf_vars, nexts>>

(***************************************************************************)
(* ProxyManager.cycle (Strategy B), a generator.                           *)
(***************************************************************************)
\* faulty variant: the test of the if is inverted
cycle_passes_inverted(out) == ~out.ret

\* if filter_func(data): the truth of the value filter_func returned
cycle_passes(out) == out.ret

\* for data in self._fetch_data(): filter_func(data) is entered
cycle_call ==
    /\ strategy = "B"
    /\ caller = "waiting"
    /\ pc = "loop"
    /\ i <= Len(data)
    /\ pc' = "call"
    /\ UNCHANGED <<strategy, status, rows, caller, r, proxies, data, i,
                   futures, probed, yielded, result, error, tp_vars, fm_vars, cf_vars, nexts>>

\* faulty variant: a candidate that passes is collected and the loop goes on
\* without suspending
cycle_filter_eager ==
    /\ strategy = "B"
    /\ caller = "waiting"
    /\ pc = "call"
    /\ \E response \in Responses(data[i]) :
         LET out == test_proxy(data[i], response)
         IN  /\ probed' = Append(probed, Probe(i, "caller", response, out))
             /\ IF out.exc # "none"
                THEN /\ pc' = "raised"
                     /\ error' = out.exc
                     /\ caller' = "done"
                     /\ UNCHANGED <<i, yielded>>
                ELSE /\ yielded' = IF cycle_passes(out)
                                   THEN Append(yielded, data[i]) ELSE yielded
                     /\ i' = i + 1
                     /\ pc' = "loop"
                     /\ UNCHANGED <<error, caller>>
    /\ UNCHANGED <<strategy, status, rows, r, proxies, data, futures,
                   result, tp_vars, fm_vars, cf_vars, nexts>>

\* filter_func(data) returns or raises: yield, next iteration, or the
\* exception leaves the generator
cycle_filter ==
    /\ strategy = "B"
    /\ caller = "waiting"
    /\ pc = "call"
    /\ \E response \in Responses(data[i]) :
         LET out == test_proxy(data[i], response)
         IN  /\ probed' = Append(probed, Probe(i, "caller", response, out))
             /\ IF out.exc # "none"
                THEN /\ pc' = "raised"
                     /\ error' = out.exc
                     /\ caller' = "done"
                     /\ UNCHANGED <<i, yielded>>
                ELSE IF cycle_passes(out)
                THEN /\ yielded' = Append(yielded, data[i])
                     /\ pc' = "suspended"
                     /\ caller' = "idle"
                     /\ UNCHANGED <<i, error>>
                ELSE /\ i' = i + 1
                     /\ pc' = "loop"
                     /\ UNCHANGED <<yielded, error, caller>>
    /\ UNCHANGED <<strategy, status, rows, r, proxies, data, futures,
                   result, tp_vars, fm_vars, cf_vars, nexts>>

\* the for loop ends: StopIteration
cycle_exhaust ==
    /\ strategy = "B"
    /\ caller = "waiting"
    /\ pc = "loop"
    /\ i > Len(data)
    /\ pc' = "exhausted"
    /\ caller' = "done"
    /\ UNCHANGED <<strategy, status, rows, r, proxies, data, i, futures,
                   probed, yielded, result, error, tp_vars, fm_vars, cf_vars, nexts>>

Next ==
    \/ Call
    \/ Resume
    \/ Stop
    \/ GetListing
    \/ ParseRow
    \/ ParseReturn
    \/ fetch_proxies_call
    \/ fetch_proxies_submit
    \/ \E k \in 1..MaxRows : worker_run(k)
    \/ fetch_proxies_collect
    \/ executor_exit
    \/ cycle_call
    \/ cycle_filter
    \/ cycle_exhaust

Spec == Init /\ [][Next]_vars

(***************************************************************************)
(* The same methods over short listings and every kind of final status.    *)
(***************************************************************************)
FinalStatuses == {200, 204, 300, 304, 404, 410, 500, 503}

InitStatus ==
    /\ strategy \in {"A", "B"}
    /\ status \in FinalStatuses
    /\ rows \in SeqsUpTo(MainRows, MaxStatusRows)
    /\ caller = "idle"
    /\ pc = "start"
    /\ r = 0
    /\ proxies = <<>>
    /\ data = <<>>
    /\ i = 0
    /\ futures = <<>>
    /\ probed = <<>>
    /\ yielded = <<>>
    /\ result = <<>>
    /\ error = "none"
    /\ nexts = 0
    /\ ProbeIdle
    /\ FormatIdle
    /\ FilterIdle

SpecStatus == InitStatus /\ [][Next]_vars

(***************************************************************************)
(* _fetch_data called alone, over listings of every row shape.             *)
(***************************************************************************)
EmptyPortRow == Row(IP2, PortEmpty, LabelAnonymous, Yes, Age5)
NegativeAgeRow == Row(IP2, Port80, LabelTransparent, Yes, AgeNegative)
WordsAgeRow == Row(IP1, Port80, LabelElite, No, AgeWords)
EmptyAgeRow == Row(IP1, PortPadded, LabelElite, No, AgeEmpty)

ParseRows ==
    {HeaderRow, ShortRow, LongRow, GoodRow1, GoodRow2, BadPortRow,
     EmptyPortRow, NegativeAgeRow, WordsAgeRow, EmptyAgeRow}

InitParse ==
    /\ strategy = "P"
    /\ status \in {200, 500}
    /\ rows \in SeqsUpTo(ParseRows, MaxParseRows)
    /\ caller = "idle"
    /\ pc = "start"
    /\ r = 0
    /\ proxies = <<>>
    /\ data = <<>>
    /\ i = 0
    /\ futures = <<>>
    /\ probed = <<>>
    /\ yielded = <<>>
    /\ result = <<>>
    /\ error = "none"
    /\ nexts = 0
    /\ ProbeIdle
    /\ FormatIdle
    /\ FilterIdle

NextParse ==
    \/ Call
    \/ GetListing
    \/ ParseRow
    \/ ParseReturn

SpecParse == InitParse /\ [][NextParse]_vars

(***************************************************************************)
(* test_proxy called alone.                                                *)
(***************************************************************************)
Candidate(ip, port) ==
    [ip |-> ip, port |-> port, country_code |-> US, anonymity |-> ELITE,
     is_google |-> FALSE, is_https |-> TRUE, last_checked |-> 0]

PaddedIP == <<" ", "1", ".", "2">>

ProbeIPs == {IP1, IP2, IP6, HostName, PaddedIP}

LeftPads == {<<>>, <<" ">>, <<"\t", " ">>}
RightPads == {<<>>, <<"\n">>, <<"\r", "\n">>}
Cores(ip) == {ip, IP2, ip \o <<"x">>, <<"1", " ", ".", "2">>, <<>>}

TransportErrors ==
    {"ConnectTimeout", "ReadTimeout", "ProxyError", "SSLError",
     "ConnectionError", "TooManyRedirects"}

ProbeResponses(proxy) ==
    {Body(l \o c \o t) : l \in LeftPads, c \in Cores(proxy.ip), t \in RightPads}
        \cup {Raises(e) : e \in TransportErrors}

InitProbe ==
    /\ OrchIdle
    /\ FormatIdle
    /\ FilterIdle
    /\ tp_pc = "start"
    /\ tp_proxy \in {Candidate(ip, 80) : ip \in ProbeIPs}
    /\ tp_request = NoConfig
    /\ tp_response = Body(<<>>)
    /\ tp_out = NoOut

\* requests.get(TEST_URL, ..., proxies=self.format_proxy(proxy), ...) is issued
test_proxy_get ==
    /\ tp_pc = "start"
    /\ tp_request' = format_proxy(tp_proxy)
    /\ tp_pc' = "get"
    /\ UNCHANGED <<tp_proxy, tp_response, tp_out, orch_vars, fm_vars, cf_vars, nexts>>

\* requests.get returns or raises, and test_proxy with it
test_proxy_done ==
    /\ tp_pc = "get"
    /\ \E response \in ProbeResponses(tp_proxy) :
         /\ tp_response' = response
         /\ tp_out' = test_proxy(tp_proxy, response)
         /\ tp_pc' = IF test_proxy(tp_proxy, response).exc = "none"
                     THEN "returned" ELSE "raised"
    /\ UNCHANGED <<tp_proxy, tp_request, orch_vars, fm_vars, cf_vars, nexts>>

NextProbe ==
    \/ test_proxy_get
    \/ test_proxy_done

SpecProbe == InitProbe /\ [][NextProbe]_vars

(***************************************************************************)
(* format_proxy and the inverse the design describes.                      *)
(***************************************************************************)
\* index of the last ":" of s, 0 if none
RECURSIVE LastColon(_)
LastColon(s) ==
    IF s = <<>> THEN 0
    ELSE IF s[Len(s)] = ":" THEN Len(s)
    ELSE LastColon(SubSeq(s, 1, Len(s) - 1))

\* unformat(config) -> (address, port): drops the "http://" prefix and
\* splits "host:port" at its last colon
unformat(config) ==
    LET uri == config.http
        n == Len(HttpPrefix)
    IN  IF Len(uri) < n \/ SubSeq(uri, 1, n) # HttpPrefix
        THEN [exc |-> "ValueError", address |-> <<>>, port |-> 0]
        ELSE LET rest == SubSeq(uri, n + 1, Len(uri))
                 k == LastColon(rest)
                 port == int(SubSeq(rest, k + 1, Len(rest)))
             IN  IF k = 0 \/ port.exc # "none"
                 THEN [exc |-> "ValueError", address |-> <<>>, port |-> 0]
                 ELSE [exc |-> "none", address |-> SubSeq(rest, 1, k - 1),
                       port |-> port.val]

FormatIPs == {IP1, IP2, IP6, HostName, PaddedIP}
FormatPorts == (1..MaxPort) \cup {80, 8080, 65535}

InitFormat ==
    /\ OrchIdle
    /\ ProbeIdle
    /\ FilterIdle
    /\ fm_pc = "start"
    /\ fm_proxy \in {Candidate(ip, port) : ip \in FormatIPs, port \in FormatPorts}
    /\ fm_config = NoConfig
    /\ fm_back = NoPair

fm_format ==
    /\ fm_pc = "start"
    /\ fm_config' = format_proxy(fm_proxy)
    /\ fm_pc' = "formatted"
    /\ UNCHANGED <<fm_proxy, fm_back, orch_vars, tp_vars, cf_vars, nexts>>

fm_unformat ==
    /\ fm_pc = "formatted"
    /\ fm_back' = unformat(fm_config)
    /\ fm_pc' = "done"
    /\ UNCHANGED <<fm_proxy, fm_config, orch_vars, tp_vars, cf_vars, nexts>>

NextFormat ==
    \/ fm_format
    \/ fm_unformat

SpecFormat == InitFormat /\ [][NextFormat]_vars

(***************************************************************************)
(* Properties.                                                             *)
(***************************************************************************)
\* a is b with some elements left out, the rest in b's order
RECURSIVE IsSubseq(_, _)
IsSubseq(a, b) ==
    IF a = <<>> THEN TRUE
    ELSE IF b = <<>> THEN FALSE
    ELSE IF Head(a) = Head(b) THEN IsSubseq(Tail(a), Tail(b))
    ELSE IsSubseq(a, Tail(b))

\* the candidates for which filter_func returned true, in call order
RECURSIVE PassedOf(_)
PassedOf(h) ==
    IF h = <<>> THEN <<>>
    ELSE (IF Head(h).exc = "none" /\ Head(h).ret THEN <<data[Head(h).idx]>> ELSE <<>>)
             \o PassedOf(Tail(h))

AllReturned(h, value) ==
    \A k \in 1..Len(h) : h[k].exc = "none" /\ h[k].ret = value

\* C1: the list fetch_proxies returns is a subsequence, in the original
\* order, of the fetched candidates for which the predicate returned true
C1_ResultIsSubsequenceOfPassed ==
    (strategy = "A" /\ pc = "returned") => IsSubseq(result, PassedOf(probed))

\* C2: with a predicate true for every candidate fetch_proxies returns the
\* whole fetched list, with a predicate false for every candidate the
\* empty list
C2_AllTrueFullAllFalseEmpty ==
    (strategy = "A" /\ pc = "returned") =>
        /\ AllReturned(probed, TRUE) => result = data
        /\ AllReturned(probed, FALSE) => result = <<>>

\* C3: in one pass of cycle the candidates are probed one after the other
\* from the first, the elements yielded are exactly the candidates whose
\* predicate was true, in source order, each yielded right after its own
\* probe and so after every earlier candidate was probed; a predicate true
\* at index 2 only yields that one candidate after probing indices 0 and 1
C3_CycleYieldsPassedInOrder ==
    strategy = "B" =>
        /\ \A k \in 1..Len(probed) : probed[k].idx = k
        /\ yielded = PassedOf(probed)
        /\ IsSubseq(yielded, data)
        /\ pc = "suspended" =>
               /\ Len(probed) = i
               /\ probed[i].ret
               /\ yielded[Len(yielded)] = data[i]
        /\ pc = "exhausted" => Len(probed) = Len(data)
        /\ (/\ Len(probed) >= 3
            /\ ~probed[1].ret /\ ~probed[2].ret /\ probed[3].ret
            /\ \A k \in 4..Len(probed) : ~probed[k].ret)
               => yielded = <<data[3]>>

C3_Witness ==
    /\ strategy = "B"
    /\ pc = "exhausted"
    /\ Len(data) = 3
    /\ Len(probed) = 3
    /\ ~probed[1].ret /\ ~probed[2].ret /\ probed[3].ret
    /\ yielded = <<data[3]>>
    /\ data[1] # data[3]

\* C4: a probe whose transport raises a timeout or a proxy-connection error
\* returns False and raises nothing
C4_ExpectedFailuresReturnFalse ==
    (/\ tp_pc \in {"returned", "raised"}
     /\ tp_response.exc \in {"ConnectTimeout", "ReadTimeout", "ProxyError"})
        => /\ tp_pc = "returned"
           /\ tp_out.exc = "none"
           /\ tp_out.ret = FALSE

C4_Witness ==
    /\ tp_pc = "returned"
    /\ tp_response.exc = "ProxyError"
    /\ tp_request.http # <<>>
    /\ tp_out.ret = FALSE

\* t is s without its leading and trailing whitespace
IsTrimOf(t, s) ==
    \E a, b \in 0..Len(s) :
        /\ a + b <= Len(s)
        /\ \A k \in 1..a : IsSpace(s[k])
        /\ \A k \in (Len(s) - b + 1)..Len(s) : IsSpace(s[k])
        /\ t = SubSeq(s, a + 1, Len(s) - b)
        /\ t # <<>> => ~IsSpace(t[1]) /\ ~IsSpace(t[Len(t)])

\* C5: when the transport returns a body, the probe returns True exactly
\* when the body without its surrounding whitespace is the candidate's
\* address, and False for every other body
C5_PassIffTrimmedBodyIsAddress ==
    (tp_pc \in {"returned", "raised"} /\ tp_response.exc = "none")
        => /\ tp_pc = "returned"
           /\ tp_out.exc = "none"
           /\ tp_out.ret = IsTrimOf(tp_proxy.ip, tp_response.text)

C5_Witness ==
    /\ tp_pc = "returned"
    /\ tp_response.exc = "none"
    /\ tp_response.text = <<" ">> \o tp_proxy.ip \o <<"\r", "\n">>
    /\ tp_out.ret = TRUE

\* C6: a transport failure of a probe that is neither a timeout nor a
\* proxy-connection failure leaves the probe as that error and aborts the
\* run: it is the last probe, the error is the one the caller gets,
\* fetch_proxies returns no list and cycle yields nothing more
C6_FatalProbeErrorAborts ==
    \A k \in 1..Len(probed) :
        probed[k].response \notin {"none", "ConnectTimeout", "ReadTimeout", "ProxyError"}
            => /\ probed[k].exc = probed[k].response
               /\ k = Len(probed)
               /\ error = probed[k].response
               /\ pc \in {"unwind", "raised"}
               /\ pc = "unwind" =>
                      /\ strategy = "A"
                      /\ caller = "waiting"
                      /\ ENABLED (executor_exit \/ \E j \in 1..Len(futures) : worker_run(j))
               /\ pc = "raised" => caller = "done" /\ ~ENABLED Next
               /\ result = <<>>
               /\ strategy = "B" => yielded = PassedOf(SubSeq(probed, 1, k - 1))

C6_Witness ==
    /\ strategy = "A"
    /\ pc = "raised"
    /\ caller = "done"
    /\ error = "SSLError"
    /\ Len(probed) = 2
    /\ probed[1].ret
    /\ probed[2].response = "SSLError"

\* the rows of rs with exactly 8 cells, each as the pair (address cell,
\* https cell is "yes"), in the order of rs
RECURSIVE WellShaped(_)
WellShaped(rs) ==
    IF rs = <<>> THEN <<>>
    ELSE (IF Len(Head(rs)) = 8 THEN <<<<Head(rs)[1], Head(rs)[7] = Yes>>>> ELSE <<>>)
             \o WellShaped(Tail(rs))

\* the candidates of ps as the pairs (ip, is_https)
Shapes(ps) == [k \in 1..Len(ps) |-> <<ps[k].ip, ps[k].is_https>>]

\* C7: _fetch_data leaves out every row that has not exactly 8 cells and
\* raises nothing for it, and its candidates are in the order of their rows
C7_MalformedRowsSkippedInOrder ==
    strategy = "P" =>
        /\ pc = "parse" => Shapes(proxies) = WellShaped(SubSeq(rows, 2, r - 1))
        /\ pc = "returned" => Shapes(result) = WellShaped(SubSeq(rows, 2, Len(rows)))
        /\ (pc = "raised" /\ error # "HTTPError") => Len(rows[r]) = 8

C7_Witness ==
    /\ strategy = "P"
    /\ pc = "returned"
    /\ Len(rows) = 4
    /\ Len(rows[3]) \in {7, 9}
    /\ Len(result) = 2
    /\ result[1].ip # result[2].ip

\* the text is a decimal integer: digits, possibly signed, possibly with
\* whitespace around
IsDecimal(s) ==
    \E a, b \in 1..(Len(s) + 1) :
        /\ \A k \in 1..(a - 1) : IsSpace(s[k])
        /\ \A k \in b..Len(s) : IsSpace(s[k])
        /\ \E d \in a..(b - 1) :
               /\ d = a \/ (d = a + 1 /\ s[a] \in {"+", "-"})
               /\ \A k \in d..(b - 1) : IsDigit(s[k])

\* row k of the listing has exactly 8 cells and a port that is no number
BadPortAt(k) ==
    /\ k \in 1..Len(rows)
    /\ Len(rows[k]) = 8
    /\ ~IsDecimal(rows[k][2])

\* the method has got no further than fetching and parsing the listing:
\* no list came back from _fetch_data and no candidate was probed
NothingFetched ==
    /\ pc \in {"start", "fetch", "parse", "raised"}
    /\ data = <<>>
    /\ probed = <<>>
    /\ futures = <<>>
    /\ yielded = <<>>
    /\ result = <<>>

\* C8 as stated: whatever row has 8 cells and a non-numeric port, the fetch
\* is aborted: no candidate list is returned and no candidate is probed
C8_AnyBadPortRowAborts ==
    (\E k \in 1..Len(rows) : BadPortAt(k)) =>
        /\ NothingFetched
        /\ caller = "done" => pc = "raised"

\* C8 as amended: a row other than the first table row that has 8 cells and
\* a non-numeric port aborts the fetch: the parser never gets past it, no
\* candidate list is returned, no candidate is probed, and once the listing
\* was fetched without an HTTP error the call ends with a parse error
C8_LaterBadPortRowAborts ==
    \A k \in 2..Len(rows) :
        BadPortAt(k) =>
            /\ NothingFetched
            /\ r <= k
            /\ caller = "done" =>
                   /\ pc = "raised"
                   /\ error \in {"HTTPError", "ValueError", "IndexError"}
                   /\ error = "HTTPError" <=> status \in 400..599

C8_Witness ==
    /\ Len(rows) >= 3
    /\ BadPortAt(3)
    /\ Len(rows[2]) = 8
    /\ ~BadPortAt(2)
    /\ caller = "done"
    /\ pc = "raised"
    /\ error = "ValueError"
    /\ Len(proxies) = 1
    /\ r = 3

\* C9 as stated: with a listing status outside 2xx no candidate is produced
\* and no probe is made, and the call ends with the error
C9_Non2xxIsFatal ==
    status \notin 200..299 =>
        /\ NothingFetched
        /\ pc # "parse"
        /\ caller = "done" => (pc = "raised" /\ error = "HTTPError")

\* C9 as amended: with a 4xx or 5xx listing status fetch_proxies and cycle
\* raise HTTPError to the caller, produce no candidate and make no probe
C9_ErrorStatusIsFatal ==
    status \in 400..599 =>
        /\ NothingFetched
        /\ pc # "parse"
        /\ proxies = <<>>
        /\ caller = "done" => (pc = "raised" /\ error = "HTTPError")

C9_Witness ==
    /\ status = 404
    /\ caller = "done"
    /\ pc = "raised"
    /\ error = "HTTPError"
    /\ Len(rows) >= 2
    /\ rows[2] = GoodRow1

\* C10: format_proxy renders the candidate as "http://<address>:<port>",
\* the port in decimal, under both keys, and unformat gives back the
\* candidate's address and port
C10_FormatRoundTrip ==
    LET n == Len(HttpPrefix) + Len(fm_proxy.ip)
        uri == fm_config.http
        digits == SubSeq(uri, n + 2, Len(uri))
    IN  /\ fm_pc \in {"formatted", "done"} =>
               /\ fm_config.https = uri
               /\ SubSeq(uri, 1, 7) = <<"h", "t", "t", "p", ":", "/", "/">>
               /\ SubSeq(uri, 8, n) = fm_proxy.ip
               /\ uri[n + 1] = ":"
               /\ AllDigits(digits)
               /\ digits[1] # "0"
               /\ DigitsValue(digits) = fm_proxy.port
        /\ fm_pc = "done" =>
               /\ fm_back.exc = "none"
               /\ fm_back.address = fm_proxy.ip
               /\ fm_back.port = fm_proxy.port

C10_Witness ==
    /\ fm_pc = "done"
    /\ fm_proxy.ip = IP6
    /\ fm_proxy.port = 8080
    /\ fm_back.address = IP6
    /\ fm_back.port = 8080

\* C12: every candidate _fetch_data builds has a last_checked that is not
\* later than the time of the fetch, whatever age text the parser accepts
C12_LastCheckedNotAfterFetch ==
    strategy = "P" =>
        /\ \A k \in 1..Len(proxies) : proxies[k].last_checked <= FetchMinute
        /\ \A k \in 1..Len(result) : result[k].last_checked <= FetchMinute

\* C13: in fetch_proxies every probe runs in the work item submitted for its
\* candidate, on a worker thread, and never on the calling thread
C13_ProbesRunInWorkerTasks ==
    strategy = "A" =>
        /\ pc # "call"
        /\ \A k \in 1..Len(probed) : probed[k].thread = "worker"

\* the probes in progress in fetch_proxies: the calling thread inside
\* filter_func, and the work items in which a worker runs a probe
ProbesInProgress ==
    (IF strategy = "A" /\ pc = "call" THEN 1 ELSE 0)
        + Cardinality({k \in Running : futures[k].fn.callable})

RECURSIVE PassedTasks(_)
PassedTasks(n) ==
    IF n = 0 THEN <<>>
    ELSE PassedTasks(n - 1)
             \o (IF /\ futures[n].state = "done"
                    /\ futures[n].exc = "none"
                    /\ futures[n].ret
                 THEN <<data[n]>> ELSE <<>>)

\* C15: fetch_proxies returns only after every work item it submitted has
\* completed, one per candidate, and the list it returns is made of the
\* outcomes of the work items: the candidates whose work item came out true
C15_ReturnsOutcomeOfEveryTask ==
    (strategy = "A" /\ pc = "returned") =>
        /\ Len(futures) = Len(data)
        /\ \A k \in 1..Len(futures) : futures[k].state = "done"
        /\ result = PassedTasks(Len(futures))

\* the run ended with no error: fetch_proxies returned its list, or the
\* single pass of cycle was consumed to its end
EndedWithoutError ==
    \/ strategy = "A" /\ pc = "returned"
    \/ strategy = "B" /\ pc = "exhausted"

\* C16: no candidate is ever probed twice, and a run of fetch_proxies or a
\* fully consumed pass of cycle that ends without error has probed every
\* fetched candidate, also those after a candidate whose probe timed out or
\* could not connect to the proxy
C16_EveryCandidateProbedOnce ==
    strategy \in {"A", "B"} =>
        /\ \A j, k \in 1..Len(probed) : probed[j].idx = probed[k].idx => j = k
        /\ \A k \in 1..Len(probed) : probed[k].idx \in 1..Len(data)
        /\ EndedWithoutError =>
               /\ error = "none"
               /\ Len(probed) = Len(data)
               /\ \A n \in 1..Len(data) : \E k \in 1..Len(probed) : probed[k].idx = n

C16_Witness ==
    /\ strategy = "A"
    /\ pc = "returned"
    /\ Len(data) = 3
    /\ Len(probed) = 3
    /\ probed[1].response = "ReadTimeout"
    /\ probed[2].response = "ProxyError"
    /\ probed[3].ret

\* C17: cycle is sequential: it uses no pool, every probe is made by the
\* thread that consumes the generator, and while the probe of candidate i
\* is in progress the probes of candidates 1..i-1, and no others, have
\* completed
C17_CycleIsSequential ==
    strategy = "B" =>
        /\ futures = <<>>
        /\ ProbesInProgress = 0
        /\ \A k \in 1..Len(probed) : probed[k].thread = "caller"
        /\ \A k \in 1..Len(probed) : probed[k].idx = k
        /\ pc = "call" => (i \in 1..Len(data) /\ Len(probed) = i - 1)
        /\ pc = "loop" => Len(probed) = i - 1
        /\ pc = "suspended" => Len(probed) = i

C17_Witness ==
    /\ strategy = "B"
    /\ pc = "call"
    /\ i = 3
    /\ Len(probed) = 2
    /\ probed[1].ret
    /\ ~probed[2].ret
    /\ Len(yielded) = 1

\* C18: cycle probes only inside a next() of its consumer: it has yielded at
\* most one element per next(), while the consumer holds the k-th element no
\* candidate after the one yielded k-th has been probed and no probe can
\* start, and once the consumer has stopped nothing is probed any more
C18_ProbingOnlyOnRequest ==
    strategy = "B" =>
        /\ Len(yielded) <= nexts
        /\ nexts = 0 => probed = <<>>
        /\ pc = "suspended" =>
               /\ Len(yielded) = nexts
               /\ yielded[nexts] = data[i]
               /\ \A k \in 1..Len(probed) : probed[k].idx <= i
        /\ caller \in {"idle", "stopped"} => ~ENABLED (cycle_call \/ cycle_filter)
        /\ caller = "stopped" => ~ENABLED Next

C18_Witness ==
    /\ strategy = "B"
    /\ caller = "stopped"
    /\ pc = "suspended"
    /\ Len(data) = 3
    /\ Len(yielded) = 2
    /\ nexts = 2
    /\ i = 2
    /\ Len(probed) = 2

\* C19: for the same fetched list and the same predicate, one that raises
\* nothing, fetch_proxies returns the sequence a fully consumed pass of cycle
\* yields, which is the candidates for which the predicate returned true
C19_BulkEqualsStreaming ==
    /\ (strategy = "B" /\ pc = "exhausted") => yielded = PassedOf(probed)
    /\ (strategy = "A" /\ pc = "returned") => result = PassedOf(probed)

\* the first whitespace-separated word of the text is a decimal integer
NumericAge(s) ==
    \E a \in 1..Len(s) : \E b \in a..Len(s) :
        /\ \A k \in 1..(a - 1) : IsSpace(s[k])
        /\ \A k \in a..b : ~IsSpace(s[k])
        /\ b = Len(s) \/ IsSpace(s[b + 1])
        /\ IsDecimal(SubSeq(s, a, b))

\* the row has exactly 8 cells, a numeric port and a numeric age
WellFormedRow(row) ==
    /\ Len(row) = 8
    /\ IsDecimal(row[2])
    /\ NumericAge(row[8])

\* the indices, in order, of the well-formed rows among rows 2..n
RECURSIVE WellFormedLater(_)
WellFormedLater(n) ==
    IF n < 2 THEN <<>>
    ELSE WellFormedLater(n - 1) \o (IF WellFormedRow(rows[n]) THEN <<n>> ELSE <<>>)

\* the candidates ps are one per row of idx, in order, each with the
\* address, country and https cells of its row
BuiltFrom(ps, idx) ==
    /\ Len(ps) = Len(idx)
    /\ \A j \in 1..Len(idx) :
           /\ ps[j].ip = rows[idx[j]][1]
           /\ ps[j].country_code = rows[idx[j]][3]
           /\ ps[j].is_https = (rows[idx[j]][7] = Yes)

\* C20 as stated: whatever the listing, once _fetch_data has ended it has
\* built no candidate from the first table row and exactly one from every
\* later row with 8 cells, a numeric port and a numeric age
C20_OneCandidatePerLaterWellFormedRow ==
    (strategy = "P" /\ caller = "done") =>
        BuiltFrom(proxies, WellFormedLater(Len(rows)))

\* C20 as amended: the list _fetch_data returns holds no candidate of the
\* first table row and exactly one, in row order, for every later row with
\* 8 cells, a numeric port and a numeric age, and no other row has 8 cells;
\* while it parses, and when it raises at a row, the candidates built are
\* those of the well-formed rows between the first row and that row
C20_ReturnedListIsTheLaterWellFormedRows ==
    strategy = "P" =>
        /\ pc = "returned" =>
               /\ BuiltFrom(result, WellFormedLater(Len(rows)))
               /\ \A k \in 2..Len(rows) : Len(rows[k]) = 8 => WellFormedRow(rows[k])
        /\ pc = "parse" => BuiltFrom(proxies, WellFormedLater(r - 1))
        /\ (pc = "raised" /\ error # "HTTPError") =>
               /\ r \in 2..Len(rows)
               /\ Len(rows[r]) = 8
               /\ ~WellFormedRow(rows[r])
               /\ BuiltFrom(proxies, WellFormedLater(r - 1))
               /\ result = <<>>

C20_Witness ==
    /\ strategy = "P"
    /\ pc = "returned"
    /\ Len(rows) = 4
    /\ WellFormedRow(rows[1])
    /\ WellFormedRow(rows[2])
    /\ Len(rows[3]) = 7
    /\ rows[4] = NegativeAgeRow
    /\ Len(result) = 2
    /\ result[1].ip = rows[2][1]
    /\ result[2].ip = rows[4][1]

(***************************************************************************)
(* The country filter of the design, applied to what _fetch_data returns.  *)
(***************************************************************************)
ALL == <<"A", "L", "L">>
DE == <<"D", "E">>

GermanRow(https) ==
    <<IP6, Port80, DE, <<"G", "e", "r">>, LabelAnonymous, Yes, https, Age5>>

FilterRows ==
    {HeaderRow, GoodRow1, GoodRow2, GermanRow(Yes), GermanRow(No)}

\* a candidate is kept only if it supports https and its country code is
\* in the accepted set; "ALL" in the set accepts every code
keep(proxy, codes) ==
    /\ proxy.is_https
    /\ (ALL \in codes \/ proxy.country_code \in codes)

RECURSIVE filtered(_, _)
filtered(ps, codes) ==
    IF ps = <<>> THEN <<>>
    ELSE (IF keep(Head(ps), codes) THEN <<Head(ps)>> ELSE <<>>)
             \o filtered(Tail(ps), codes)

InitFilter ==
    /\ strategy = "P"
    /\ status = 200
    /\ rows \in SeqsUpTo(FilterRows, MaxFilterRows)
    /\ caller = "idle"
    /\ pc = "start"
    /\ r = 0
    /\ proxies = <<>>
    /\ data = <<>>
    /\ i = 0
    /\ futures = <<>>
    /\ probed = <<>>
    /\ yielded = <<>>
    /\ result = <<>>
    /\ error = "none"
    /\ nexts = 0
    /\ ProbeIdle
    /\ FormatIdle
    /\ accepted \in {{ALL}, {US}}
    /\ kept = <<>>

\* the filter runs over the list _fetch_data returned
country_filter ==
    /\ strategy = "P"
    /\ pc = "returned"
    /\ accepted # {}
    /\ kept' = filtered(result, accepted)
    /\ pc' = "filtered"
    /\ UNCHANGED <<strategy, status, rows, caller, r, proxies, data, i,
                   futures, probed, yielded, result, error, accepted, nexts,
                   tp_vars, fm_vars>>

NextFilter ==
    \/ Call
    \/ GetListing
    \/ ParseRow
    \/ ParseReturn
    \/ country_filter

SpecFilter == InitFilter /\ [][NextFilter]_vars

\* the rows after the first whose https cell is "yes" and, when only the
\* codes of the set are wanted, whose country cell is in it, as the pairs
\* (address cell, country cell), in row order
RECURSIVE RowsWanted(_, _, _)
RowsWanted(n, anycode, codes) ==
    IF n < 2 THEN <<>>
    ELSE RowsWanted(n - 1, anycode, codes)
             \o (IF /\ Len(rows[n]) = 8
                    /\ rows[n][7] = Yes
                    /\ (anycode \/ rows[n][3] \in codes)
                 THEN <<<<rows[n][1], rows[n][3]>>>> ELSE <<>>)

\* C11: with accepted set {"ALL"} the filter keeps every https-capable
\* candidate whatever its country code, with accepted set {"US"} exactly
\* the https-capable candidates whose country code is "US"
C11_CountryFilterKeeps ==
    pc = "filtered" =>
        LET pairs == [k \in 1..Len(kept) |-> <<kept[k].ip, kept[k].country_code>>]
        IN  /\ IsSubseq(kept, result)
            /\ \A k \in 1..Len(kept) : kept[k].is_https
            /\ accepted = {ALL} => pairs = RowsWanted(Len(rows), TRUE, {})
            /\ accepted = {US} => pairs = RowsWanted(Len(rows), FALSE, {US})

C11_Witness ==
    /\ pc = "filtered"
    /\ accepted = {US}
    /\ Len(result) = 3
    /\ \E k \in 1..3 : result[k].country_code = DE /\ result[k].is_https
    /\ \E k \in 1..3 : result[k].country_code = US /\ ~result[k].is_https
    /\ Len(kept) = 1
    /\ kept[1].country_code = US

====
